---- MODULE Spec2Model ----
(***************************************************************************)
(* Model of fitbit_cheat: the Runner (fitbit_host.py) and the Authorizer   *)
(* (fitbit_login.py), two scripts that share two files in the working      *)
(* directory, fitbit_config.json and fitbit_tokens.json.                   *)
(*                                                                         *)
(* One script runs at a time (invocations do not overlap).  A step of the  *)
(* model is the code between two blocking points of a script: a request    *)
(* to the remote API together with the response it gets, a file that is    *)
(* opened for writing, the wait on the listener thread.                    *)
(*                                                                         *)
(* Values: a token is <<"A", n>> or <<"R", n>>, n numbering the token      *)
(* response that issued it; a Python str s is <<s>>; None (Python's None,  *)
(* JSON's null) is <<>>.                                                   *)
(***************************************************************************)
EXTENDS Integers, Sequences, FiniteSets, TLC

VARIABLES
    configFile,     \* fitbit_config.json exists (it then holds client_id/client_secret)
    configSteps,    \* its daily_steps entry: None if the key is absent, else <<n>>
    tokenFile,      \* contents of fitbit_tokens.json
    proc,           \* the script of the current (or last) invocation
    pc,             \* position of its main flow
    exit_status,    \* <<>> while running, <<0>> or <<1>> once the process has exited
    stdout,         \* the status lines printed by the invocation
    calls,          \* the remote calls of the invocation, in order
    access_token,   \* FitbitHost.access_token
    refresh_token,  \* FitbitHost.refresh_token
    daily_steps,    \* FitbitHost.daily_steps, as <<n>>; None before load_config
    caller,         \* who called refresh_access_token: "probe" or "submit"
    jd,             \* the token response being saved
    auth_code,      \* CallbackHandler.auth_code
    code,           \* main's local variable code (fitbit_login.py)
    thread,         \* the listener thread: "none", "listening", "handling", "done"
    request,        \* the query of the request the listener is handling
    responses,      \* the status codes the listener has answered with
    sent,           \* number of callbacks the browser has sent
    joined,         \* <<>> until thread.join returns, then <<how, auth_code then>>,
                    \* how being "finished" or "timeout"
    waited,         \* seconds the main flow has spent in thread.join
    startFile,      \* contents of fitbit_tokens.json when the invocation started
    issued,         \* number of token responses the token endpoint has issued
    now,            \* the UTC clock, in ticks
    invocations     \* number of invocations started

vars == <<configFile, configSteps, daily_steps, tokenFile, proc, pc, exit_status, stdout, calls, access_token,
          refresh_token, caller, jd, auth_code, code, thread, request, responses,
          sent, joined, waited, startFile, issued, now, invocations>>

hostVars == <<access_token, refresh_token, daily_steps, caller>>
loginVars == <<auth_code, code, thread, request, responses, sent, joined, waited>>

----------------------------------------------------------------------------
(* Bounds *)

MaxInvocations == 2
MaxCallbacks == 2
\* configured step counts run over 1..MaxSteps
MaxSteps == 210
\* the clock of the wait advances by this many seconds at a time
TickSeconds == 60

----------------------------------------------------------------------------
(* Values *)

None == <<>>
Str(s) == <<s>>
A(n) == <<"A", n>>
R(n) == <<"R", n>>
\* scope, token_type and expires_in of token response n
Meta(n) == <<"M", n>>
\* the keys are not in the record
Absent == <<"absent">>

\* the three states of a file on disk and the record of fitbit_tokens.json
Missing == [state |-> "missing", access_token |-> None, refresh_token |-> None,
            meta |-> None, updated_at |-> None]
\* opened with mode "w" (truncated) and not yet written and closed: not valid JSON
Partial == [state |-> "partial", access_token |-> None, refresh_token |-> None,
            meta |-> None, updated_at |-> None]

\* statuses the remote API answers with
ProbeStatuses == {200, 401, 403, 429, 500}
RefreshStatuses == {200, 400, 401}
SubmitStatuses == {200, 201, 204, 400, 401}
ExchangeStatuses == {200, 304, 400, 500}

Call(kind, status, token) == [kind |-> kind, status |-> status, token |-> token]

\* utcnow().isoformat() + "Z" at tick t
Timestamp(t) == <<t>>

----------------------------------------------------------------------------
(* fitbit_host.py *)

\* faulty variant: the refresh token is not written
HostRecordNoRefresh(a, r, t) ==
    [state |-> "json", access_token |-> a, refresh_token |-> None,
     meta |-> Absent, updated_at |-> Timestamp(t)]

\* the record save_tokens dumps: three keys, nothing else
HostRecord(a, r, t) ==
    [state |-> "json", access_token |-> a, refresh_token |-> r,
     meta |-> Absent, updated_at |-> Timestamp(t)]

Exit(status, lines) ==
    /\ pc' = "exited"
    /\ exit_status' = <<status>>
    /\ stdout' = stdout \o lines

\* a new process: no state but the two files
Fresh(script, at) ==
    /\ pc \in {"idle", "exited", "killed"}
    /\ invocations < MaxInvocations
    /\ invocations' = invocations + 1
    /\ proc' = script
    /\ pc' = at
    /\ exit_status' = <<>>
    /\ stdout' = <<>>
    /\ calls' = <<>>
    /\ access_token' = None
    /\ refresh_token' = None
    /\ daily_steps' = None
    /\ caller' = "none"
    /\ jd' = None
    /\ auth_code' = None
    /\ code' = None
    /\ thread' = "none"
    /\ request' = <<>>
    /\ responses' = <<>>
    /\ sent' = 0
    /\ joined' = <<>>
    /\ waited' = 0
    /\ startFile' = tokenFile
    /\ UNCHANGED <<configFile, configSteps, tokenFile, issued, now>>

\* python fitbit_host.py
HostStart == Fresh("host", "init")

\* not os.path.exists(CONFIG_FILE)
ConfigMissing == ~configFile

\* faulty variant: load_tokens without its existence test
TokensMissingIgnored == FALSE

\* not os.path.exists(TOKEN_FILE)
TokensMissing == tokenFile.state = "missing"

\* load_config line 31: int(cfg.get("daily_steps", 10000))
DefaultDailySteps == 10000
ConfiguredSteps == IF configSteps = None THEN DefaultDailySteps ELSE configSteps[1]

\* FitbitHost.__init__: load_config, then load_tokens
HostInit ==
    /\ proc = "host" /\ pc = "init"
    /\ IF ConfigMissing
       THEN /\ Exit(1, <<"fitbit_config.json missing">>)
            /\ UNCHANGED <<access_token, refresh_token, daily_steps>>
       ELSE IF TokensMissing
       THEN /\ Exit(1, <<"fitbit_tokens.json missing">>)
            /\ daily_steps' = <<ConfiguredSteps>>
            /\ UNCHANGED <<access_token, refresh_token>>
       ELSE IF tokenFile.state = "partial"
       THEN \* json.load raises JSONDecodeError, uncaught
            /\ Exit(1, <<"Traceback">>)
            /\ daily_steps' = <<ConfiguredSteps>>
            /\ UNCHANGED <<access_token, refresh_token>>
       ELSE /\ daily_steps' = <<ConfiguredSteps>>
            /\ access_token' = tokenFile.access_token
            /\ refresh_token' = tokenFile.refresh_token
            /\ pc' = "probe"
            /\ stdout' = stdout \o <<"Running at">>
            /\ UNCHANGED exit_status
    /\ UNCHANGED <<configFile, configSteps, tokenFile, proc, calls, caller, jd, issued, now,
                   invocations, startFile>>
    /\ UNCHANGED loginVars

\* faulty variants: the probe's status is not looked at
NeedsRefreshNever(status) == FALSE
NeedsRefreshAlways(status) == TRUE
\* faulty variant: anything but a 200 counts as an invalid token
NeedsRefreshUnless200(status) == status # 200

\* refresh_if_needed line 59
NeedsRefresh(status) == status = 401

\* refresh_if_needed: the probe GET and what its status decides
RefreshIfNeeded ==
    /\ proc = "host" /\ pc = "probe"
    /\ \E status \in ProbeStatuses :
        /\ calls' = Append(calls, Call("probe", status, access_token))
        /\ IF NeedsRefresh(status)
           THEN /\ pc' = "refresh"
                /\ caller' = "probe"
           ELSE /\ pc' = "submit"
                /\ caller' = caller
    /\ UNCHANGED <<configFile, configSteps, tokenFile, proc, exit_status, stdout, access_token,
                   refresh_token, daily_steps, jd, issued, now, invocations, startFile>>
    /\ UNCHANGED loginVars

\* faulty variant: the callers go on whatever refresh_access_token returned
RefreshFailedIgnored ==
    /\ pc' = IF caller = "probe" THEN "submit" ELSE "resubmit"
    /\ UNCHANGED <<exit_status, stdout>>

\* what the caller of refresh_access_token does when it returns False
RefreshFailed ==
    IF caller = "probe"
    THEN Exit(0, <<"Refresh failed:", "Token refresh/check failed.">>)
    ELSE Exit(0, <<"Refresh failed:", "Failed.">>)

\* faulty variant: only a 401 counts as a failed refresh
RefreshOkUnless401(status) == status # 401

\* refresh_access_token line 74
RefreshOk(status) == status = 200

\* refresh_access_token: the POST to the token endpoint; on 200 save_tokens opens
\* fitbit_tokens.json with mode "w", which truncates it
RefreshAccessToken ==
    /\ proc = "host" /\ pc = "refresh"
    /\ \E status \in RefreshStatuses :
        /\ calls' = Append(calls, Call("refresh", status, refresh_token))
        /\ IF ~RefreshOk(status)
           THEN /\ RefreshFailed
                /\ UNCHANGED <<tokenFile, jd, issued>>
           ELSE \E withRefresh \in BOOLEAN :
                /\ issued' = issued + 1
                /\ jd' = [access_token |-> A(issued + 1),
                          refresh_token |-> IF withRefresh THEN R(issued + 1) ELSE None,
                          meta |-> None]
                /\ tokenFile' = Partial
                /\ pc' = "save"
                /\ stdout' = stdout
                /\ UNCHANGED exit_status
    /\ UNCHANGED <<configFile, configSteps, proc, access_token, refresh_token, daily_steps,
                   caller, now,
                   invocations, startFile>>
    /\ UNCHANGED loginVars

\* faulty variant: the file is written, the fields (lines 50-51) are not set
SaveTokensFileOnly ==
    /\ proc = "host" /\ pc = "save"
    /\ now' = now + 1
    /\ tokenFile' = HostRecord(jd.access_token, jd.refresh_token, now + 1)
    /\ stdout' = stdout \o <<"Updated fitbit_tokens.json">>
    /\ pc' = IF caller = "probe" THEN "submit" ELSE "resubmit"
    /\ UNCHANGED <<configFile, configSteps, proc, exit_status, calls, caller, jd, issued,
                   daily_steps, invocations, startFile, access_token, refresh_token>>
    /\ UNCHANGED loginVars

\* save_tokens(jd["access_token"], jd.get("refresh_token")): dump, close, set the
\* fields; then refresh_access_token returns True to its caller
SaveTokens ==
    /\ proc = "host" /\ pc = "save"
    /\ now' = now + 1
    /\ tokenFile' = HostRecord(jd.access_token, jd.refresh_token, now + 1)
    /\ access_token' = jd.access_token
    /\ refresh_token' = jd.refresh_token
    /\ stdout' = stdout \o <<"Updated fitbit_tokens.json">>
    /\ pc' = IF caller = "probe" THEN "submit" ELSE "resubmit"
    /\ UNCHANGED <<configFile, configSteps, proc, exit_status, calls, caller, jd, issued,
                   daily_steps, invocations, startFile>>
    /\ UNCHANGED loginVars

Max(a, b) == IF a >= b THEN a ELSE b

\* faulty variant: the duration without its minimum of one minute
DurationMinutesNoMin(steps) == steps \div 100

\* log_steps line 94: max(steps // 100, 1)
DurationMinutes(steps) == Max(steps \div 100, 1)

\* round(x, 3) of x given in ten-thousandths, in thousandths: to the nearest
\* thousandth, a tie to the even one
Round3(x) ==
    LET q == x \div 10
        r == x % 10
    IN IF r > 5 \/ (r = 5 /\ q % 2 = 1) THEN q + 1 ELSE q

\* log_steps line 100: round(steps * 0.0008, 3), in thousandths
Distance(steps) == Round3(8 * steps)

\* log_steps line 96
ActivityId == 90013

\* log_steps lines 95-102: the form of the POST (startTime and date left out)
Entry(steps) ==
    [activityId |-> ActivityId,
     durationMillis |-> DurationMinutes(steps) * 60 * 1000,
     distance |-> Distance(steps),
     steps |-> steps]

\* the submission: a call with its form
Submit(status, token, data) ==
    [kind |-> "submit", status |-> status, token |-> token, data |-> data]

\* faulty variant: any 2xx counts as logged
LoggedAny2xx(status) == status >= 200 /\ status < 300

\* log_steps line 110
Logged(status) == status \in {200, 201}

\* log_steps from line 110: the final status decides what is reported
Report(status, hasLogId) ==
    IF ~Logged(status)
    THEN Exit(0, <<"Log failed:", "Failed.">>)
    ELSE Exit(0, <<"Logged steps:">> \o (IF hasLogId THEN <<"logId:">> ELSE <<>>)
                 \o <<"Done.">>)

\* faulty variant: log_steps without its 401 branch
TokenExpiredNever(status) == FALSE

\* log_steps line 104
TokenExpired(status) == status = 401

\* log_steps: the first POST
LogSteps ==
    /\ proc = "host" /\ pc = "submit"
    /\ \E status \in SubmitStatuses, hasLogId \in BOOLEAN :
        /\ calls' = Append(calls, Submit(status, access_token, Entry(daily_steps[1])))
        /\ IF TokenExpired(status)
           THEN /\ pc' = "refresh"
                /\ caller' = "submit"
                /\ stdout' = stdout \o <<"Token expired, refreshing...">>
                /\ UNCHANGED exit_status
           ELSE /\ Report(status, hasLogId)
                /\ caller' = caller
    /\ UNCHANGED <<configFile, configSteps, tokenFile, proc, access_token, refresh_token,
                   daily_steps, jd,
                   issued, now, invocations, startFile>>
    /\ UNCHANGED loginVars

\* faulty variant: a while in place of the if of line 104, so that a 401 on the
\* resubmission is refreshed and resubmitted again (here up to 8 calls)
LogStepsRetryAgain ==
    /\ proc = "host" /\ pc = "resubmit"
    /\ \E status \in SubmitStatuses, hasLogId \in BOOLEAN :
        /\ calls' = Append(calls, Submit(status, access_token, Entry(daily_steps[1])))
        /\ IF status = 401 /\ Len(calls) < 7
           THEN /\ pc' = "refresh"
                /\ UNCHANGED <<exit_status, stdout>>
           ELSE Report(status, hasLogId)
    /\ UNCHANGED <<configFile, configSteps, tokenFile, proc, access_token, refresh_token,
                   daily_steps, caller, jd, issued, now, invocations, startFile>>
    /\ UNCHANGED loginVars

\* faulty variant: the retry sends the header built at line 91 again
RetryBearerStale == calls[Len(calls) - 1].token

\* log_steps line 108: headers["Authorization"] = f"Bearer {self.access_token}"
RetryBearer == access_token

\* log_steps lines 108-109: the second POST, with the refreshed header
LogStepsRetry ==
    /\ proc = "host" /\ pc = "resubmit"
    /\ \E status \in SubmitStatuses, hasLogId \in BOOLEAN :
        /\ calls' = Append(calls, Submit(status, RetryBearer, Entry(daily_steps[1])))
        /\ Report(status, hasLogId)
    /\ UNCHANGED <<configFile, configSteps, tokenFile, proc, access_token, refresh_token,
                   daily_steps, caller,
                   jd, issued, now, invocations, startFile>>
    /\ UNCHANGED loginVars

\* the process is interrupted (killed, power loss) wherever it is
Kill ==
    /\ pc \notin {"idle", "exited", "killed"}
    /\ pc' = "killed"
    /\ UNCHANGED <<configFile, configSteps, tokenFile, proc, exit_status, stdout, calls, jd,
                   issued, now, invocations, startFile>>
    /\ UNCHANGED hostVars
    /\ UNCHANGED loginVars

----------------------------------------------------------------------------
(* fitbit_login.py *)

\* the queries a callback request can carry: a sequence of <<key, value>> pairs
Queries ==
    { <<>>,
      << <<"code", "c1">> >>,
      << <<"code", "">> >>,
      << <<"error", "access_denied">> >>,
      << <<"state", "s">>, <<"code", "c2">> >>,
      << <<"code", "c1">>, <<"code", "c2">> >> }

\* the values of key k, in order
RECURSIVE ValuesOf(_, _)
ValuesOf(q, k) ==
    IF q = <<>> THEN <<>>
    ELSE IF Head(q)[1] = k THEN <<Head(q)[2]>> \o ValuesOf(Tail(q), k)
    ELSE ValuesOf(Tail(q), k)

\* faulty variant: parse_qs(query, keep_blank_values=True)
parse_qs_keep_blank(q) ==
    [k \in {q[i][1] : i \in DOMAIN q} |-> ValuesOf(q, k)]

\* urllib.parse.parse_qs(query), keep_blank_values=False: a pair with a blank value
\* is dropped; the result maps each remaining key to the list of its values
parse_qs(q) ==
    LET kept == SelectSeq(q, LAMBDA p : p[2] # "")
        keys == {kept[i][1] : i \in DOMAIN kept}
    IN [k \in keys |-> ValuesOf(kept, k)]

\* Python's truth value of a str or None
Truthy(x) == x # None /\ x # Str("")

\* requests' raise_for_status raises HTTPError for 4xx and 5xx
RaisesForStatus(status) == status >= 400 /\ status < 600

\* r.json() and data["access_token"]: the token endpoint sends the token JSON with
\* a 2xx status only; on any other body one of the two raises, before save_tokens
\* opens the file
HasTokenBody(status) == status >= 200 /\ status < 300

\* faulty variant: save_tokens writes the three keys the Runner writes
LoginRecordNoMeta(a, r, m, t) ==
    [state |-> "json", access_token |-> a, refresh_token |-> r,
     meta |-> Absent, updated_at |-> Timestamp(t)]

\* the record save_tokens(data) dumps: six keys
LoginRecord(a, r, m, t) ==
    [state |-> "json", access_token |-> a, refresh_token |-> r,
     meta |-> m, updated_at |-> Timestamp(t)]

\* python fitbit_login.py
LoginStart == Fresh("login", "load_config")

\* load_config: a missing file is replaced by a sample and the process exits 1
LoadConfig ==
    /\ proc = "login" /\ pc = "load_config"
    /\ IF ConfigMissing
       THEN /\ configFile' = TRUE
            /\ configSteps' = None
            /\ Exit(1, <<"Created sample fitbit_config.json">>)
       ELSE /\ pc' = "run_local_server"
            /\ stdout' = stdout \o <<"Open this URL">>
            /\ UNCHANGED <<configFile, configSteps, exit_status>>
    /\ UNCHANGED <<tokenFile, proc, calls, jd, issued, now, invocations, startFile>>
    /\ UNCHANGED hostVars
    /\ UNCHANGED loginVars

\* run_local_server: the listener thread starts, in server.handle_request
RunLocalServer ==
    /\ proc = "login" /\ pc = "run_local_server"
    /\ thread' = "listening"
    /\ pc' = "join"
    /\ stdout' = stdout \o <<"Waiting for redirect">>
    /\ UNCHANGED <<configFile, configSteps, tokenFile, proc, exit_status, calls, jd, issued, now,
                   invocations, startFile>>
    /\ UNCHANGED hostVars
    /\ UNCHANGED <<auth_code, code, request, responses, sent, joined, waited>>

\* the browser sends a GET to the redirect URI; handle_request takes it if the
\* thread is still waiting for its one request, otherwise nobody ever reads it
Callback ==
    /\ proc = "login" /\ pc \notin {"idle", "load_config"}
    /\ sent < MaxCallbacks
    /\ sent' = sent + 1
    /\ \E q \in Queries :
        IF thread = "listening" /\ pc \notin {"exited", "killed"}
        THEN /\ thread' = "handling"
             /\ request' = q
        ELSE UNCHANGED <<thread, request>>
    /\ UNCHANGED <<configFile, configSteps, tokenFile, proc, pc, exit_status, stdout, calls, jd,
                   issued, now, invocations, startFile>>
    /\ UNCHANGED hostVars
    /\ UNCHANGED <<auth_code, code, responses, joined, waited>>

\* do_GET lines 27-30: parse the query, capture the code
DoGETParse ==
    /\ proc = "login" /\ pc \notin {"exited", "killed"}
    /\ thread = "handling"
    /\ LET qs == parse_qs(request)
       IN IF "code" \in DOMAIN qs
          THEN auth_code' = Str(qs["code"][1])
          ELSE auth_code' = auth_code
    /\ thread' = "responding"
    /\ UNCHANGED <<configFile, configSteps, tokenFile, proc, pc, exit_status, stdout, calls, jd,
                   issued, now, invocations, startFile>>
    /\ UNCHANGED hostVars
    /\ UNCHANGED <<code, request, responses, sent, joined, waited>>

\* do_GET lines 31-38: answer 200 or 400; handle_request returns, the thread ends
DoGETRespond ==
    /\ proc = "login" /\ pc \notin {"exited", "killed"}
    /\ thread = "responding"
    /\ responses' = Append(responses,
                           IF "code" \in DOMAIN parse_qs(request) THEN 200 ELSE 400)
    /\ thread' = "done"
    /\ UNCHANGED <<configFile, configSteps, tokenFile, proc, pc, exit_status, stdout, calls, jd,
                   issued, now, invocations, startFile>>
    /\ UNCHANGED hostVars
    /\ UNCHANGED <<auth_code, code, request, sent, joined, waited>>

\* thread.join(timeout=300)
JoinTimeout == 300

\* time passes while the main flow is blocked in thread.join
Tick ==
    /\ proc = "login" /\ pc = "join"
    /\ thread # "done"
    /\ waited < JoinTimeout
    /\ waited' = waited + TickSeconds
    /\ UNCHANGED <<configFile, configSteps, tokenFile, proc, pc, exit_status, stdout, calls,
                   jd, issued, now, invocations, startFile>>
    /\ UNCHANGED hostVars
    /\ UNCHANGED <<auth_code, code, thread, request, responses, sent, joined>>

\* faulty variant: a wait that does not block
JoinReturnsAtOnce == TRUE

\* thread.join(timeout=300) returns when the thread has ended or 300 s have passed
JoinReturns == thread = "done" \/ waited >= JoinTimeout

\* thread.join(timeout=300): the main flow goes on to line 127
Join ==
    /\ proc = "login" /\ pc = "join"
    /\ JoinReturns
    /\ joined' = <<IF thread = "done" THEN "finished" ELSE "timeout", auth_code>>
    /\ pc' = "read_code"
    /\ UNCHANGED <<configFile, configSteps, tokenFile, proc, exit_status, stdout, calls, jd,
                   issued, now, invocations, startFile>>
    /\ UNCHANGED hostVars
    /\ UNCHANGED <<auth_code, code, thread, request, responses, sent, waited>>

\* main lines 127-133: read CallbackHandler.auth_code; without a code exit 1
ReadCode ==
    /\ proc = "login" /\ pc = "read_code"
    /\ code' = auth_code
    /\ IF ~Truthy(auth_code)
       THEN Exit(1, <<"No code received.">>)
       ELSE /\ pc' = "exchange"
            /\ stdout' = stdout \o <<"Got code, exchanging for token...">>
            /\ UNCHANGED exit_status
    /\ UNCHANGED <<configFile, configSteps, tokenFile, proc, calls, jd, issued, now, invocations, startFile>>
    /\ UNCHANGED hostVars
    /\ UNCHANGED <<auth_code, thread, request, responses, sent, joined, waited>>

\* exchange_code_for_token: the POST; raise_for_status raises HTTPError (or the
\* body holds no token and reading it raises), which the except Exception of
\* line 142 prints; otherwise save_tokens opens the file with
\* mode "w", which truncates it
ExchangeCodeForToken ==
    /\ proc = "login" /\ pc = "exchange"
    /\ \E status \in ExchangeStatuses :
        /\ calls' = Append(calls, Call("exchange", status, code))
        /\ IF RaisesForStatus(status) \/ ~HasTokenBody(status)
           THEN /\ Exit(0, <<"Error:">>)
                /\ UNCHANGED <<tokenFile, jd, issued>>
           ELSE \E withRefresh \in BOOLEAN, withMeta \in BOOLEAN :
                /\ issued' = issued + 1
                /\ jd' = [access_token |-> A(issued + 1),
                          refresh_token |-> IF withRefresh THEN R(issued + 1) ELSE None,
                          meta |-> IF withMeta THEN Meta(issued + 1) ELSE None]
                /\ tokenFile' = Partial
                /\ pc' = "save"
                /\ UNCHANGED <<exit_status, stdout>>
    /\ UNCHANGED <<configFile, configSteps, proc, now, invocations, startFile>>
    /\ UNCHANGED hostVars
    /\ UNCHANGED loginVars

\* save_tokens(data): dump and close; then main lines 136-137 and exit 0
LoginSaveTokens ==
    /\ proc = "login" /\ pc = "save"
    /\ now' = now + 1
    /\ tokenFile' = LoginRecord(jd.access_token, jd.refresh_token, jd.meta, now + 1)
    /\ Exit(0, <<"Saved tokens to fitbit_tokens.json", "Done.">>)
    /\ UNCHANGED <<configFile, configSteps, proc, calls, jd, issued, invocations, startFile>>
    /\ UNCHANGED hostVars
    /\ UNCHANGED loginVars

----------------------------------------------------------------------------

\* no invocation yet
InitRest ==
    /\ proc = "none"
    /\ pc = "idle"
    /\ exit_status = <<>>
    /\ stdout = <<>>
    /\ calls = <<>>
    /\ access_token = None
    /\ refresh_token = None
    /\ daily_steps = None
    /\ caller = "none"
    /\ jd = None
    /\ auth_code = None
    /\ code = None
    /\ thread = "none"
    /\ request = <<>>
    /\ responses = <<>>
    /\ sent = 0
    /\ joined = <<>>
    /\ waited = 0
    /\ startFile = tokenFile
    /\ issued = 0
    /\ now = 0
    /\ invocations = 0

Init ==
    /\ configFile \in BOOLEAN
    /\ configSteps \in (IF configFile THEN {None, <<150>>} ELSE {None})
    /\ tokenFile \in {Missing, LoginRecord(A(0), R(0), Meta(0), 0)}
    /\ InitRest

Next ==
    \/ HostStart
    \/ HostInit
    \/ RefreshIfNeeded
    \/ RefreshAccessToken
    \/ SaveTokens
    \/ LogSteps
    \/ LogStepsRetry
    \/ LoginStart
    \/ LoadConfig
    \/ RunLocalServer
    \/ Callback
    \/ DoGETParse
    \/ DoGETRespond
    \/ Tick
    \/ Join
    \/ ReadCode
    \/ ExchangeCodeForToken
    \/ LoginSaveTokens
    \/ Kill

Spec == Init /\ [][Next]_vars

\* a step of the Runner's main flow
HostStep ==
    \/ HostInit
    \/ RefreshIfNeeded
    \/ RefreshAccessToken
    \/ SaveTokens
    \/ LogSteps
    \/ LogStepsRetry

\* the Runner keeps running, and each of its requests gets a response
FairSpec == Spec /\ WF_vars(HostStep)

\* the Runner alone, over every configured step count
InitSteps ==
    /\ configFile = TRUE
    /\ configSteps \in {None} \cup {<<n>> : n \in 1..MaxSteps}
    /\ tokenFile = LoginRecord(A(0), R(0), Meta(0), 0)
    /\ InitRest

NextSteps ==
    \/ HostStart
    \/ HostInit
    \/ RefreshIfNeeded
    \/ RefreshAccessToken
    \/ SaveTokens
    \/ LogSteps
    \/ LogStepsRetry

SpecSteps == InitSteps /\ [][NextSteps]_vars

----------------------------------------------------------------------------
(* Vocabulary of the properties *)

Last(s) == s[Len(s)]
HostExited == proc = "host" /\ pc = "exited"
LoginExited == proc = "login" /\ pc = "exited"
Printed(line) == \E i \in DOMAIN stdout : stdout[i] = line

\* position of the first submission among cs, Len(cs) + 1 if there is none
FirstSubmit(cs) ==
    IF \E i \in DOMAIN cs : cs[i].kind = "submit"
    THEN CHOOSE i \in DOMAIN cs :
            /\ cs[i].kind = "submit"
            /\ \A j \in 1..(i - 1) : cs[j].kind # "submit"
    ELSE Len(cs) + 1

\* number of calls of a kind among cs[from..to]
Count(cs, kind, from, to) ==
    Cardinality({i \in from..to : i \in DOMAIN cs /\ cs[i].kind = kind})

----------------------------------------------------------------------------
(* Properties *)

\* C1: in a Runner invocation the first call is the probe; after a 401 probe
\* exactly one refresh request is made before any submission, and the run never
\* reaches a submission without it; after a 200 probe no refresh request is made
\* before the first submission (the run goes straight to it).
C1_ProbeDecidesRefresh ==
    (proc = "host" /\ calls # <<>>) =>
        LET first == FirstSubmit(calls)
            before == Count(calls, "refresh", 1, first - 1)
        IN /\ calls[1].kind = "probe"
           /\ Count(calls, "probe", 1, Len(calls)) = 1
           /\ calls[1].status = 401 =>
                /\ before <= 1
                /\ pc \in {"save", "submit", "resubmit", "exited"} => before = 1
                /\ first <= Len(calls) => before = 1 /\ calls[2].kind = "refresh"
                /\ Len(calls) = 1 => pc \in {"refresh", "killed"}
           /\ calls[1].status = 200 =>
                /\ before = 0
                /\ Len(calls) = 1 => pc \in {"submit", "killed"}

C1_Witness ==
    /\ HostExited
    /\ Len(calls) = 3
    /\ calls[1].status = 401
    /\ calls[2].kind = "refresh"
    /\ calls[3].kind = "submit"

\* C2 as stated: a finished run whose first submission got 401 has made exactly
\* one refresh request after it and exactly two submissions, and a 401 on the
\* second is reported as a failure with no further call.
C2_AsStated ==
    LET first == FirstSubmit(calls)
    IN (HostExited /\ first <= Len(calls) /\ calls[first].status = 401) =>
        /\ Count(calls, "refresh", first + 1, Len(calls)) = 1
        /\ Count(calls, "submit", 1, Len(calls)) = 2
        /\ Last(calls).status = 401 => Last(stdout) = "Failed."

\* C2 amended: a finished run whose first submission got 401 has made exactly one
\* refresh request right after it; if that refresh got 200 exactly one
\* resubmission follows it and nothing else, and if it did not, no resubmission
\* is made; a 401 on the resubmission is reported as a failure, with no further
\* refresh or submission.
C2_RetryOnce ==
    LET first == FirstSubmit(calls)
    IN (HostExited /\ first <= Len(calls) /\ calls[first].status = 401) =>
        /\ Len(calls) > first
        /\ calls[first + 1].kind = "refresh"
        /\ Count(calls, "refresh", first + 1, Len(calls)) = 1
        /\ IF calls[first + 1].status = 200
           THEN /\ Len(calls) = first + 2
                /\ calls[first + 2].kind = "submit"
                /\ calls[first + 2].status = 401 => Last(stdout) = "Failed."
           ELSE /\ Len(calls) = first + 1
                /\ Last(stdout) = "Failed."

C2_Witness ==
    /\ HostExited
    /\ Len(calls) = 4
    /\ calls[2].kind = "submit" /\ calls[2].status = 401
    /\ calls[3].kind = "refresh" /\ calls[3].status = 200
    /\ calls[4].kind = "submit" /\ calls[4].status = 401
    /\ Last(stdout) = "Failed."

\* C3: right after a successful refresh has been saved, the record holds the
\* response's access_token and a fresh updated_at, and its refresh_token (and the
\* one in memory) is the response's if it had one and otherwise the one that was
\* persisted before, which is the one the refresh request sent.
C3_RefreshRewrites ==
    (proc = "host" /\ pc \in {"submit", "resubmit"}
        /\ calls # <<>> /\ Last(calls).kind = "refresh") =>
        /\ tokenFile.state = "json"
        /\ tokenFile.access_token = jd.access_token
        /\ tokenFile.updated_at = Timestamp(now)
        /\ tokenFile.updated_at # startFile.updated_at
        /\ LET kept == IF jd.refresh_token # None THEN jd.refresh_token
                       ELSE Last(calls).token
           IN /\ tokenFile.refresh_token = kept
              /\ refresh_token = kept

\* C4: a process that has exited has a non-zero status exactly when a
\* configuration file was missing, no authorization code was received, or the
\* token exchange or the token refresh failed.
FailureReported ==
    \/ Printed("fitbit_config.json missing")
    \/ Printed("fitbit_tokens.json missing")
    \/ Printed("Created sample fitbit_config.json")
    \/ Printed("No code received.")
    \/ Printed("Error:")
    \/ Printed("Refresh failed:")

C4_ExitStatus ==
    pc = "exited" => (exit_status # <<0>> <=> FailureReported)

\* C5: a Runner that finds fitbit_config.json or fitbit_tokens.json missing, and
\* an Authorizer that finds fitbit_config.json missing, gets no further than its
\* loading step: it makes no remote call, starts no listener, and exits non-zero.
C5_MissingFilesNoCalls ==
    /\ (proc = "host" /\ (ConfigMissing \/ startFile.state = "missing")) =>
            /\ calls = <<>>
            /\ pc \in {"init", "exited", "killed"}
            /\ pc = "exited" => exit_status = <<1>>
    /\ (proc = "login" /\ ConfigMissing) =>
            /\ calls = <<>> /\ thread = "none"
            /\ pc \in {"load_config", "killed"}
    /\ (proc = "login" /\ Printed("Created sample fitbit_config.json")) =>
            /\ calls = <<>> /\ thread = "none"
            /\ pc = "exited" /\ exit_status = <<1>>

C5_Witness ==
    /\ HostExited
    /\ ~ConfigMissing
    /\ startFile.state = "missing"
    /\ exit_status = <<1>>

\* C6: a Runner that is about to load fitbit_tokens.json never finds a partial
\* write there, and a record it finds holds an access_token and a refresh_token
\* of the same token response.
C6_AtomicPersist ==
    (proc = "host" /\ pc = "init") =>
        /\ tokenFile.state # "partial"
        /\ tokenFile.state = "json" =>
              \E n \in 0..issued :
                  /\ tokenFile.access_token = A(n)
                  /\ tokenFile.refresh_token \in {R(n), None}

\* C7: a refresh request that got a status other than 200 is the last call of
\* its run: the run has ended, with no submission at all if the refresh followed
\* the probe, and with only the one submission if it followed a submission.
C7_RefreshFailureAborts ==
    proc = "host" =>
        \A i \in DOMAIN calls :
            (calls[i].kind = "refresh" /\ calls[i].status # 200) =>
                /\ i = Len(calls)
                /\ pc = "exited"
                /\ calls[i - 1].kind = "probe" =>
                      /\ Count(calls, "submit", 1, Len(calls)) = 0
                      /\ Last(stdout) = "Token refresh/check failed."
                /\ calls[i - 1].kind = "submit" =>
                      /\ Count(calls, "submit", 1, Len(calls)) = 1
                      /\ Last(stdout) = "Failed."

C7_Witness ==
    /\ HostExited
    /\ Len(calls) = 3
    /\ calls[2].kind = "submit"
    /\ calls[3].kind = "refresh" /\ calls[3].status # 200

\* C8: a run that loaded a record, got 200 on the probe and 200 or 201 on the
\* submission made these two calls only, reported success, and left
\* fitbit_tokens.json as it was when the run started.
C8_HappyPathFrame ==
    (proc = "host" /\ calls # <<>> /\ calls[1].status = 200
        /\ FirstSubmit(calls) <= Len(calls)
        /\ calls[FirstSubmit(calls)].status \in {200, 201}) =>
        /\ pc = "exited"
        /\ Len(calls) = 2
        /\ Count(calls, "refresh", 1, Len(calls)) = 0
        /\ Last(stdout) = "Done."
        /\ exit_status = <<0>>
        /\ tokenFile = startFile

C8_Witness ==
    /\ HostExited
    /\ Len(calls) = 2
    /\ calls[1].status = 200
    /\ calls[2].status = 201
    /\ startFile.state = "json"
    /\ Printed("logId:")

\* C9: a finished run with a 401 probe, a refresh answered 200 with an
\* access_token and a refresh_token, and a submission answered 200 leaves a
\* record holding that access_token and that refresh_token, and reports success.
C9_RefreshThenSubmit ==
    (HostExited /\ Len(calls) = 3
        /\ calls[1].status = 401
        /\ calls[2].kind = "refresh" /\ calls[2].status = 200
        /\ jd.refresh_token # None
        /\ calls[3].status = 200) =>
        /\ tokenFile.state = "json"
        /\ tokenFile.access_token = jd.access_token
        /\ tokenFile.refresh_token = jd.refresh_token
        /\ tokenFile.access_token # startFile.access_token
        /\ tokenFile.refresh_token # startFile.refresh_token
        /\ Last(stdout) = "Done."

C9_Witness ==
    /\ HostExited /\ Len(calls) = 3
    /\ calls[1].status = 401
    /\ calls[2].status = 200
    /\ calls[3].status = 200
    /\ tokenFile.access_token = A(1)
    /\ tokenFile.refresh_token = R(1)

\* a code parameter in the query, blank or not
HasCodeParam(q) == \E i \in DOMAIN q : q[i][1] = "code"
\* a code parameter with a value
HasCode(q) == \E i \in DOMAIN q : q[i][1] = "code" /\ q[i][2] # ""
FirstCode(q) ==
    q[CHOOSE i \in DOMAIN q :
        /\ q[i][1] = "code" /\ q[i][2] # ""
        /\ \A j \in 1..(i - 1) : ~(q[j][1] = "code" /\ q[j][2] # "")][2]

\* C10 as stated: the listener answers at most one request, with 200 and the
\* code captured if the query has a code parameter and with 400 and no code
\* captured otherwise; and if no code was captured when thread.join returned, the
\* Authorizer makes no token request, leaves fitbit_tokens.json alone and exits
\* non-zero.
C10_AsStated ==
    proc = "login" =>
        /\ Len(responses) <= 1
        /\ responses # <<>> =>
              IF HasCodeParam(request)
              THEN responses = <<200>> /\ auth_code # None
              ELSE responses = <<400>> /\ auth_code = None
        /\ (joined # <<>> /\ ~Truthy(joined[2])) =>
              /\ pc \in {"read_code", "exited", "killed"}
              /\ calls = <<>>
              /\ tokenFile = startFile
              /\ pc = "exited" => exit_status = <<1>>

\* C10 amended: the listener answers at most one request, with 200 and the code
\* captured if the query has a code parameter with a non-empty value (the first
\* such value is the code) and with 400 and no code captured otherwise; and if
\* the main flow finds no code when it reads CallbackHandler.auth_code after the
\* wait, the Authorizer makes no token request, leaves fitbit_tokens.json alone
\* and exits non-zero, whatever callback is sent afterwards.
C10_OneRequestNoFallback ==
    proc = "login" =>
        /\ Len(responses) <= 1
        /\ thread \in {"none", "listening"} => responses = <<>> /\ auth_code = None
        /\ thread \in {"responding", "done"} =>
              auth_code = IF HasCode(request) THEN Str(FirstCode(request)) ELSE None
        /\ responses # <<>> =>
              /\ thread = "done"
              /\ responses = IF HasCode(request) THEN <<200>> ELSE <<400>>
        /\ (joined # <<>> /\ pc # "read_code" /\ ~Truthy(code)) =>
              /\ pc \in {"exited", "killed"}
              /\ calls = <<>>
              /\ tokenFile = startFile
              /\ pc = "exited" => exit_status = <<1>> /\ Last(stdout) = "No code received."
        /\ calls # <<>> => Truthy(code) /\ calls[1].token = code

C10_Witness ==
    /\ LoginExited
    /\ Last(stdout) = "No code received."
    /\ request = << <<"code", "">> >>
    /\ responses = <<400>>
    /\ sent = 2
    /\ calls = <<>>

\* C11: in the Authorizer a token exchange answered with a status outside 2xx
\* ends the run with the error printed and fitbit_tokens.json as it was when the
\* run started; an exchange answered 2xx, once saved, leaves a record made of the
\* response's access_token, refresh_token, scope/token_type/expires_in and a
\* fresh updated_at, with nothing of the prior record in it.
C11_ExchangePersists ==
    (proc = "login" /\ calls # <<>>) =>
        LET status == calls[1].status
        IN /\ Len(calls) = 1 /\ calls[1].kind = "exchange"
           /\ ~(status >= 200 /\ status <= 299) =>
                /\ pc = "exited"
                /\ Last(stdout) = "Error:"
                /\ tokenFile = startFile
           /\ (status >= 200 /\ status <= 299 /\ pc = "exited") =>
                /\ Last(stdout) = "Done."
                /\ tokenFile = [state |-> "json",
                                access_token |-> jd.access_token,
                                refresh_token |-> jd.refresh_token,
                                meta |-> jd.meta,
                                updated_at |-> Timestamp(now)]
                /\ tokenFile.access_token = A(issued)
                /\ tokenFile.access_token # startFile.access_token
                /\ tokenFile.updated_at # startFile.updated_at
                /\ tokenFile.meta # Absent
                /\ tokenFile.refresh_token \in {R(issued), None}

C11_Witness ==
    /\ LoginExited
    /\ calls # <<>> /\ calls[1].status = 200
    /\ startFile.state = "json" /\ startFile.meta = Absent
    /\ tokenFile.meta = Meta(issued)
    /\ tokenFile.refresh_token = R(issued)

\* C12: every submission carries the configured step count s (10000 if none is
\* configured) and, for s >= 1, a duration of d minutes sent as d * 60000 ms,
\* where d = 1 if s < 100 and otherwise 100 * d <= s < 100 * (d + 1), and the
\* distance nearest to 0.0008 * s in thousandths; s = 10000 gives 100 minutes
\* and 8.000, and every s in 1..199 gives 1 minute.
C12_EntryDerivation ==
    proc = "host" =>
        \A i \in DOMAIN calls :
            calls[i].kind = "submit" =>
                LET e == calls[i].data
                    s == e.steps
                    d == e.durationMillis \div 60000
                    m == e.distance
                IN /\ s = IF configSteps = None THEN 10000 ELSE configSteps[1]
                   /\ s >= 1
                   /\ e.durationMillis = d * 60000
                   /\ s < 100 => d = 1
                   /\ s >= 100 => 100 * d <= s /\ s < 100 * (d + 1)
                   /\ s \in 1..199 => d = 1
                   /\ 10 * m - 8 * s \in -4..4
                   /\ s = 10000 => d = 100 /\ m = 8000
                   /\ e.activityId = 90013

C12_Witness ==
    /\ HostExited
    /\ calls # <<>> /\ Last(calls).kind = "submit"
    /\ Last(calls).data.steps = 99
    /\ Last(calls).data.durationMillis = 60000
    /\ Last(calls).data.distance = 79

\* C13: the Authorizer's main flow is past thread.join only if, when the wait
\* ended, the listener thread had ended (having answered its one request) or
\* 300 s had passed; once past it the main flow never waits again, whatever
\* further callbacks are sent; and when the wait ended with the thread ended,
\* the code the handler captured is what the main flow sees then and reads.
C13_WaitThenProceed ==
    proc = "login" =>
        /\ pc \in {"load_config", "run_local_server", "join"} => joined = <<>>
        /\ pc \in {"read_code", "exchange", "save", "exited"} /\ thread # "none" =>
              joined # <<>>
        /\ joined # <<>> =>
              /\ pc # "join"
              /\ joined[1] \in {"finished", "timeout"}
              /\ joined[1] = "timeout" => waited >= 300
              /\ joined[1] = "finished" =>
                    LET captured == IF HasCode(request) THEN Str(FirstCode(request))
                                    ELSE None
                    IN /\ thread = "done"
                       /\ Len(responses) = 1
                       /\ joined[2] = captured
                       /\ pc \in {"exchange", "save", "exited"} => code = captured

C13_Witness ==
    /\ LoginExited
    /\ joined # <<>> /\ joined[1] = "finished"
    /\ waited > 0 /\ waited < 300
    /\ sent = 2
    /\ code = Str("c2")
    /\ calls # <<>>

\* C14: a submission made after a refresh of the same run was answered 200
\* carries the access_token of the latest such answer, and not the token the
\* run loaded at its start.
C14_BearerIsRefreshed ==
    (proc = "host" /\ calls # <<>> /\ Last(calls).kind = "submit"
        /\ \E j \in 1..(Len(calls) - 1) :
              calls[j].kind = "refresh" /\ calls[j].status = 200) =>
        /\ Last(calls).token = jd.access_token
        /\ Last(calls).token = A(issued)
        /\ Last(calls).token # startFile.access_token

C14_Witness ==
    /\ HostExited
    /\ Len(calls) = 5
    /\ calls[2].kind = "refresh" /\ calls[4].kind = "refresh"
    /\ calls[3].token = A(issued - 1)
    /\ calls[5].token = A(issued)

\* C15: the step in which a refresh request is answered with a status other
\* than 200 ends the run (there is no second attempt) and changes neither
\* fitbit_tokens.json nor the access_token and refresh_token in memory.
C15_FailedRefreshFrame ==
    [][(proc = "host" /\ pc = "refresh"
            /\ Len(calls') = Len(calls) + 1 /\ Last(calls').status # 200) =>
        /\ Last(calls').kind = "refresh"
        /\ pc' = "exited"
        /\ tokenFile' = tokenFile
        /\ access_token' = access_token
        /\ refresh_token' = refresh_token]_vars

C15_Witness ==
    /\ HostExited
    /\ Len(calls) = 4
    /\ calls[2].kind = "refresh" /\ calls[2].status = 200
    /\ calls[4].kind = "refresh" /\ calls[4].status = 400
    /\ tokenFile.state = "json"
    /\ tokenFile.access_token = access_token
    /\ access_token = jd.access_token

\* C16: after a probe answered with any status other than 401 (200, 403, 429,
\* 500) the run makes no second probe and no refresh before its first
\* submission: the call after the probe, if there is one, is the submission.
C16_ProbePresumedValid ==
    (proc = "host" /\ calls # <<>> /\ calls[1].status # 401) =>
        /\ calls[1].kind = "probe"
        /\ Count(calls, "probe", 1, Len(calls)) = 1
        /\ Count(calls, "refresh", 1, FirstSubmit(calls) - 1) = 0
        /\ Len(calls) = 1 => pc \in {"submit", "killed"}
        /\ Len(calls) >= 2 => calls[2].kind = "submit"

C16_Witness ==
    /\ HostExited
    /\ Len(calls) = 2
    /\ calls[1].kind = "probe" /\ calls[1].status = 429
    /\ calls[2].kind = "submit"

\* C17: a finished Runner invocation has reported success ("Done.") exactly when
\* the last submission response it got was 200 or 201; a last call that is a
\* submission with any other status (204, 400, a 401 on the resubmission) is
\* reported as a log failure.
C17_SuccessIffLogged ==
    HostExited =>
        LET n == Count(calls, "submit", 1, Len(calls))
            last == CHOOSE i \in DOMAIN calls :
                        /\ calls[i].kind = "submit"
                        /\ \A j \in (i + 1)..Len(calls) : calls[j].kind # "submit"
        IN /\ Printed("Done.") <=> (n > 0 /\ calls[last].status \in {200, 201})
           /\ Printed("Done.") => Last(stdout) = "Done." /\ last = Len(calls)
           /\ (n > 0 /\ last = Len(calls) /\ calls[last].status \notin {200, 201}) =>
                 /\ Len(stdout) >= 2
                 /\ stdout[Len(stdout) - 1] = "Log failed:"
                 /\ Last(stdout) = "Failed."

C17_Witness ==
    /\ HostExited
    /\ Len(calls) = 2
    /\ calls[2].kind = "submit" /\ calls[2].status = 204
    /\ Last(stdout) = "Failed."

\* C18: a Runner invocation makes at most one probe, two refresh requests and
\* two submissions, a second submission only after a 401 on the first, at most
\* one submission answered 200 or 201; and, its requests being answered, every
\* invocation that has started reaches a terminal state.
C18_CallsBounded ==
    proc = "host" =>
        /\ Count(calls, "probe", 1, Len(calls)) <= 1
        /\ Count(calls, "refresh", 1, Len(calls)) <= 2
        /\ Count(calls, "submit", 1, Len(calls)) <= 2
        /\ Len(calls) <= 5
        /\ Count(calls, "submit", 1, Len(calls)) = 2 =>
              calls[FirstSubmit(calls)].status = 401
        /\ Cardinality({i \in DOMAIN calls :
              calls[i].kind = "submit" /\ calls[i].status \in {200, 201}}) <= 1

C18_BoundedAndTerminates ==
    /\ []C18_CallsBounded
    /\ (proc = "host" /\ pc = "init") ~> (pc \in {"exited", "killed"})

C18_Witness ==
    /\ HostExited
    /\ Len(calls) = 5
    /\ Count(calls, "refresh", 1, 5) = 2
    /\ Count(calls, "submit", 1, 5) = 2
    /\ calls[5].status = 201

\* the Runner has loaded its tokens and is between two operations, or has ended
\* after at least one of them
HostBetweenOperations ==
    /\ proc = "host"
    /\ \/ pc \in {"probe", "refresh", "submit", "resubmit"}
       \/ pc = "exited" /\ calls # <<>>

\* C19: after load_tokens and after every completed operation of the Runner the
\* access_token and refresh_token it holds are those of fitbit_tokens.json, and
\* every refresh request sends the refresh_token the file holds at that moment.
C19_InSync ==
    HostBetweenOperations =>
        /\ tokenFile.state = "json"
        /\ access_token = tokenFile.access_token
        /\ refresh_token = tokenFile.refresh_token

C19_RefreshSendsPersisted ==
    (proc = "host" /\ pc = "refresh" /\ calls' # calls) =>
        /\ Last(calls').kind = "refresh"
        /\ tokenFile.state = "json"
        /\ Last(calls').token = tokenFile.refresh_token

C19_MemoryMatchesFile ==
    /\ []C19_InSync
    /\ [][C19_RefreshSendsPersisted]_vars

\* a second invocation refreshes with the token the first one saved, and ends
\* holding what it saved itself
C19_Witness ==
    /\ HostExited
    /\ invocations = 2
    /\ startFile.state = "json"
    /\ startFile.meta = Absent
    /\ startFile.refresh_token # None
    /\ Len(calls) >= 2
    /\ calls[2].kind = "refresh"
    /\ calls[2].status = 200
    /\ calls[2].token = startFile.refresh_token
    /\ access_token = tokenFile.access_token
    /\ access_token # startFile.access_token

====
